---- MODULE Spec2Model ----
(***************************************************************************)
(* FiveMDevKit: the natives catalog of the editor extension.               *)
(*                                                                         *)
(* The repository holds two revisions of the extension's entry file:       *)
(* src/src/extension.ts (PascalCase labels, typed multi-line snippets, an  *)
(* events provider, a guarded catalog load) and src/unnamed/part_000 (raw  *)
(* labels, one-line snippets, a definition provider, an unguarded catalog  *)
(* load).  The variable `unit` says which of the two is the running one.   *)
(*                                                                         *)
(* A JavaScript string is a sequence of one-character strings, so that     *)
(* charAt, slice, split, toUpperCase and toLowerCase are computed.         *)
(***************************************************************************)
EXTENDS Integers, Sequences, FiniteSets, TLC

VARIABLES
    unit,          \* which entry file runs: "extension.ts" or "part_000"
    pc,            \* "start", "active" (activate returned), "crashed" (activate threw),
                   \* "deactivated", or "done" (a pure call returned)
    fileState,     \* data/natives.json: "missing", "malformed" or "ok"
    fileDoc,       \* the JSON document in the file when fileState = "ok"
    allNatives,    \* activate's local allNatives
    natives,       \* the array the providers were constructed with (this.natives)
    messages,      \* what vscode.window.show*Message was called with, in order
    subscriptions, \* context.subscriptions
    items,         \* the result of the last provideCompletionItems call
    requests,      \* how many provideCompletionItems calls returned
    word,          \* the word under the cursor of the last provideDefinition call, if any
    match,         \* the index in the catalog of the record `find` selected (0: none)
    opened,        \* the pages vscode.env.openExternal was called with, in order
    arg,           \* the argument of a pure call
    ret            \* the result of a pure call

vars == <<unit, pc, fileState, fileDoc, allNatives, natives, messages, subscriptions,
          items, requests, word, match, opened, arg, ret>>

--------------------------------------------------------------------------
(* Characters and strings *)

UpperLetters == <<"A","B","C","D","E","F","G","H","I","J","K","L","M",
                  "N","O","P","Q","R","S","T","U","V","W","X","Y","Z">>

LowerLetters == <<"a","b","c","d","e","f","g","h","i","j","k","l","m",
                  "n","o","p","q","r","s","t","u","v","w","x","y","z">>

Digits == <<"0","1","2","3","4","5","6","7","8","9">>

Range(f) == {f[i] : i \in DOMAIN f}

\* The position of c in the sequence q (c occurs in q).
IndexIn(c, q) == CHOOSE i \in DOMAIN q : q[i] = c

\* String.prototype.toUpperCase on one character.
UpperChar(c) ==
    IF c \in Range(LowerLetters) THEN UpperLetters[IndexIn(c, LowerLetters)] ELSE c

\* String.prototype.toLowerCase on one character.
LowerChar(c) ==
    IF c \in Range(UpperLetters) THEN LowerLetters[IndexIn(c, UpperLetters)] ELSE c

toUpperCase(s) == [i \in 1..Len(s) |-> UpperChar(s[i])]

toLowerCase(s) == [i \in 1..Len(s) |-> LowerChar(s[i])]

\* s.charAt(0): the first character as a string, "" for the empty string.
charAt0(s) == IF Len(s) = 0 THEN <<>> ELSE <<s[1]>>

\* s.slice(n) for n >= 0: the string without its first n characters.
slice(s, n) == IF Len(s) <= n THEN <<>> ELSE SubSeq(s, n + 1, Len(s))

\* s.split("_"): the pieces between underscores, empty pieces kept.
RECURSIVE splitFrom(_, _, _)
splitFrom(s, i, cur) ==
    IF i > Len(s) THEN <<cur>>
    ELSE IF s[i] = "_" THEN <<cur>> \o splitFrom(s, i + 1, <<>>)
    ELSE splitFrom(s, i + 1, Append(cur, s[i]))

split(s) == splitFrom(s, 1, <<>>)

\* parts.join(sep)
RECURSIVE join(_, _)
join(parts, sep) ==
    IF Len(parts) = 0 THEN <<>>
    ELSE IF Len(parts) = 1 THEN parts[1]
    ELSE parts[1] \o sep \o join(Tail(parts), sep)

\* /^[A-Z0-9_]+$/.test(s)
isUpperSnake(s) ==
    /\ Len(s) >= 1
    /\ \A i \in 1..Len(s) :
          s[i] \in Range(UpperLetters) \cup Range(Digits) \cup {"_"}

\* chunk.charAt(0).toUpperCase() + chunk.slice(1).toLowerCase()
capitalizeChunk(chunk) == toUpperCase(charAt0(chunk)) \o toLowerCase(slice(chunk, 1))

toPascalCase_keepsSeparator(s) ==
    IF isUpperSnake(s)
    THEN join([i \in 1..Len(split(s)) |-> capitalizeChunk(split(s)[i])], <<"_">>)
    ELSE toUpperCase(charAt0(s)) \o slice(s, 1)

toPascalCase_alwaysChunks(s) ==
    join([i \in 1..Len(split(s)) |-> capitalizeChunk(split(s)[i])], <<>>)

toPascalCase(s) ==
    IF isUpperSnake(s)
    THEN join([i \in 1..Len(split(s)) |-> capitalizeChunk(split(s)[i])], <<>>)
    ELSE toUpperCase(charAt0(s)) \o slice(s, 1)

T_string  == <<"s","t","r","i","n","g">>
T_number  == <<"n","u","m","b","e","r">>
T_boolean == <<"b","o","o","l","e","a","n">>
T_charPtr == <<"c","h","a","r","*">>
T_float   == <<"f","l","o","a","t">>
T_int     == <<"i","n","t">>
T_bool    == <<"b","o","o","l">>

mapType_caseSensitive(type) ==
    IF type = T_charPtr THEN T_string
    ELSE IF type \in {T_float, T_int} THEN T_number
    ELSE IF type = T_bool THEN T_boolean
    ELSE toLowerCase(type)

mapType(type) ==
    LET t == toLowerCase(type) IN
    IF t = T_charPtr THEN T_string
    ELSE IF t \in {T_float, T_int} THEN T_number
    ELSE IF t = T_bool THEN T_boolean
    ELSE t

--------------------------------------------------------------------------
(* Bounds and input sets of the pure string functions *)

MaxStrLen == 4

Alphabet == {"A", "B", "a", "1", "_"}

\* Every string over cs of length at most n.
RECURSIVE StringsUpTo(_, _)
StringsUpTo(cs, n) ==
    IF n = 0 THEN {<<>>}
    ELSE LET shorter == StringsUpTo(cs, n - 1) IN
         shorter \cup {Append(s, c) : s \in {t \in shorter : Len(t) = n - 1}, c \in cs}

\* Every spelling of s that differs from it in letter case only.
RECURSIVE CaseVariants(_)
CaseVariants(s) ==
    IF Len(s) = 0 THEN {<<>>}
    ELSE {<<c>> \o t : c \in {LowerChar(s[1]), UpperChar(s[1])}, t \in CaseVariants(Tail(s))}

N_triggerMusicEvent == <<"T","R","I","G","G","E","R","_","M","U","S","I","C","_","E","V","E","N","T">>
N_triggerEvent      == <<"t","r","i","g","g","e","r","E","v","e","n","t">>
N_fooBar            == <<"F","o","o","_","B","A","R">>
T_vector3           == <<"V","e","c","t","o","r","3">>

NameInputs ==
    StringsUpTo(Alphabet, MaxStrLen) \cup {N_triggerMusicEvent, N_triggerEvent, N_fooBar}

TypeInputs ==
    CaseVariants(T_charPtr) \cup CaseVariants(T_float) \cup CaseVariants(T_int)
      \cup CaseVariants(T_bool) \cup CaseVariants(T_vector3)
      \cup {<<>>, <<"i","n">>, <<"i","n","t","s">>, <<"c","h","a","r">>,
            <<"b","o","o","l","*">>, <<"P","e","d">>}

--------------------------------------------------------------------------
(* The pure string functions applied to drawn inputs *)

NoCall == [fn |-> "none", out |-> <<>>]

InitStr ==
    /\ unit = "extension.ts"
    /\ pc = "start"
    /\ fileState = "missing"
    /\ fileDoc = <<>>
    /\ allNatives = <<>>
    /\ natives = <<>>
    /\ messages = <<>>
    /\ subscriptions = {}
    /\ items = <<>>
    /\ requests = 0
    /\ word = <<>>
    /\ match = 0
    /\ opened = <<>>
    /\ arg \in NameInputs \cup TypeInputs
    /\ ret = NoCall

Call_toPascalCase ==
    /\ pc = "start"
    /\ pc' = "done"
    /\ ret' = [fn |-> "toPascalCase", out |-> toPascalCase(arg)]
    /\ UNCHANGED <<unit, fileState, fileDoc, allNatives, natives, messages, subscriptions,
                   items, requests, word, match, opened, arg>>

Call_mapType ==
    /\ pc = "start"
    /\ pc' = "done"
    /\ ret' = [fn |-> "mapType", out |-> mapType(arg)]
    /\ UNCHANGED <<unit, fileState, fileDoc, allNatives, natives, messages, subscriptions,
                   items, requests, word, match, opened, arg>>

NextStr == Call_toPascalCase \/ Call_mapType

SpecStr == InitStr /\ [][NextStr]_vars

--------------------------------------------------------------------------
(* Claims about the pure string functions, checked under SpecStr *)

UpperSnakeChars == Range(UpperLetters) \cup Range(Digits) \cup {"_"}

\* The character at position i of an upper-snake name as the display name
\* shows it: kept when it starts a chunk, lowercased when it continues one.
DisplayChar(s, i) ==
    IF i > 1 /\ s[i - 1] # "_" THEN LowerChar(s[i]) ELSE UpperChar(s[i])

\* The characters of s that are no underscore, each as DisplayChar shows it.
RECURSIVE DisplayFrom(_, _)
DisplayFrom(s, i) ==
    IF i > Len(s) THEN <<>>
    ELSE (IF s[i] = "_" THEN <<>> ELSE <<DisplayChar(s, i)>>) \o DisplayFrom(s, i + 1)

N_TriggerMusicEvent_display == <<"T","r","i","g","g","e","r","M","u","s","i","c","E","v","e","n","t">>
N_TriggerEvent_display      == <<"T","r","i","g","g","e","r","E","v","e","n","t">>

\* C5: toPascalCase returns a string for every input.  When the input is one
\* or more characters out of A-Z, 0-9 and underscore, the result is its
\* underscore-separated chunks concatenated without separator, each with the
\* first character uppercased and the rest lowercased (empty chunks give
\* nothing, digits stay); otherwise the result is the input with only its
\* first character uppercased.  TRIGGER_MUSIC_EVENT gives TriggerMusicEvent,
\* triggerEvent gives TriggerEvent, A_B gives AB.
C5_toPascalCase ==
    (pc = "done" /\ ret.fn = "toPascalCase") =>
        /\ (arg # <<>> /\ Range(arg) \subseteq UpperSnakeChars)
              => ret.out = DisplayFrom(arg, 1)
        /\ ~(arg # <<>> /\ Range(arg) \subseteq UpperSnakeChars)
              => /\ Len(ret.out) = Len(arg)
                 /\ \A i \in 1..Len(arg) :
                       ret.out[i] = IF i = 1 THEN UpperChar(arg[1]) ELSE arg[i]
        /\ arg = N_triggerMusicEvent => ret.out = N_TriggerMusicEvent_display
        /\ arg = N_triggerEvent => ret.out = N_TriggerEvent_display
        /\ arg = <<"A","_","B">> => ret.out = <<"A","B">>

C5_witness ==
    /\ pc = "done" /\ ret.fn = "toPascalCase"
    /\ arg = <<"A","1","_","B">>
    /\ ret.out = <<"A","1","B">>

\* C9: mapType matches its whole input without regard to letter case: char*
\* gives string, float and int give number, bool gives boolean, every other
\* input gives the input lowercased; FLOAT gives number, Bool gives boolean,
\* Vector3 gives vector3.
C9_mapType ==
    (pc = "done" /\ ret.fn = "mapType") =>
        /\ arg \in CaseVariants(T_charPtr) => ret.out = T_string
        /\ arg \in CaseVariants(T_float) \cup CaseVariants(T_int) => ret.out = T_number
        /\ arg \in CaseVariants(T_bool) => ret.out = T_boolean
        /\ arg \notin CaseVariants(T_charPtr) \cup CaseVariants(T_float)
                        \cup CaseVariants(T_int) \cup CaseVariants(T_bool)
              => /\ Len(ret.out) = Len(arg)
                 /\ \A i \in 1..Len(arg) : ret.out[i] = LowerChar(arg[i])
        /\ arg = <<"F","L","O","A","T">> => ret.out = T_number
        /\ arg = <<"B","o","o","l">> => ret.out = T_boolean
        /\ arg = T_vector3 => ret.out = <<"v","e","c","t","o","r","3">>

C9_witness ==
    /\ pc = "done" /\ ret.fn = "mapType"
    /\ arg = <<"F","L","O","A","T">>
    /\ ret.out = T_number

\* An identifier that has a lowercase letter and an underscore.
MixedCaseWithUnderscore(s) ==
    /\ \E i \in 1..Len(s) : s[i] \in Range(LowerLetters)
    /\ \E i \in 1..Len(s) : s[i] = "_"

\* C10 as stated: a mixed-case identifier with an underscore gets the
\* chunk-by-chunk treatment, the later letters of each word lowercased.
C10_asStated ==
    (pc = "done" /\ ret.fn = "toPascalCase" /\ MixedCaseWithUnderscore(arg))
        => ret.out = DisplayFrom(arg, 1)

\* C10 amended: a mixed-case identifier with an underscore takes the second
\* branch: its first character is uppercased and everything after it, the
\* underscores and the casing of the later words included, is kept; Foo_BAR
\* stays Foo_BAR.
C10_mixedCaseKept ==
    (pc = "done" /\ ret.fn = "toPascalCase" /\ MixedCaseWithUnderscore(arg))
        => /\ ret.out = <<UpperChar(arg[1])>> \o Tail(arg)
           /\ \E i \in 1..Len(ret.out) : ret.out[i] = "_"
           /\ arg = N_fooBar => ret.out = N_fooBar

C10_witness ==
    /\ pc = "done" /\ ret.fn = "toPascalCase"
    /\ arg = N_fooBar
    /\ ret.out = N_fooBar

--------------------------------------------------------------------------
(* The raw catalog and parseNatives *)

(* A parsed JSON object is the sequence of its members in document order,  *)
(* each [key, ...] with the keys distinct.  A module is [key, isNull,      *)
(* entries]; an entry is [key, def].  A raw definition `def` is            *)
(*   [isNull, name, params, results, description]                          *)
(* where an optional member is [present, val] (absent and null alike are   *)
(* present = FALSE) and results is [kind, str, arr] with kind "absent",    *)
(* "string" or "array".                                                    *)

Absent(v) == [present |-> FALSE, val |-> v]
Present(v) == [present |-> TRUE, val |-> v]

NoResults == [kind |-> "absent", str |-> <<>>, arr |-> <<>>]
StringResult(t) == [kind |-> "string", str |-> t, arr |-> <<>>]
ArrayResult(ts) == [kind |-> "array", str |-> <<>>, arr |-> ts]

\* The largest array index of ECMAScript, 2^32 - 2, as a numeral.
MaxArrayIndexNumeral == <<"4","2","9","4","9","6","7","2","9","4">>

digitValue(c) == IndexIn(c, Digits) - 1

\* Whether numeral a is at most numeral b, both canonical (no leading zero):
\* the shorter is the smaller, and equal lengths compare digit by digit.
numeralAtMost(a, b) ==
    \/ Len(a) < Len(b)
    \/ /\ Len(a) = Len(b)
       /\ \/ a = b
          \/ \E i \in 1..Len(a) :
                /\ \A j \in 1..(i - 1) : a[j] = b[j]
                /\ digitValue(a[i]) < digitValue(b[i])

\* Whether the property key k is an array index: a canonical decimal
\* numeral (no sign, no leading zero) of value at most 2^32 - 2.
isArrayIndex(k) ==
    /\ Len(k) >= 1
    /\ \A i \in 1..Len(k) : k[i] \in Range(Digits)
    /\ (Len(k) = 1 \/ k[1] # "0")
    /\ numeralAtMost(k, MaxArrayIndexNumeral)

\* The members of obj whose key is an array index, in ascending numeric order.
RECURSIVE indexMembersAscending(_)
indexMembersAscending(obj) ==
    LET idx == {i \in 1..Len(obj) : isArrayIndex(obj[i].key)} IN
    IF idx = {} THEN <<>>
    ELSE LET m == CHOOSE i \in idx :
                    \A j \in idx : numeralAtMost(obj[i].key, obj[j].key)
         IN <<obj[m]>> \o
            indexMembersAscending([i \in 1..(Len(obj) - 1) |->
                                      IF i < m THEN obj[i] ELSE obj[i + 1]])

isStringKeyed(member) == ~isArrayIndex(member.key)

\* Object.keys(obj), each key with its member: the array-index keys first in
\* ascending numeric order, then the other keys in the order they were
\* created, which for a parsed document is document order.
objectKeys(obj) == indexMembersAscending(obj) \o SelectSeq(obj, isStringKeyed)

isKept_whenNamePresent(nativeDef) == ~nativeDef.isNull /\ nativeDef.name.present

\* nativeDef && nativeDef.name
isKept(nativeDef) ==
    /\ ~nativeDef.isNull
    /\ nativeDef.name.present
    /\ nativeDef.name.val # <<>>

toRecord_wrapsResult(moduleName, nativeHash, nativeDef) ==
    [name        |-> nativeDef.name.val,
     hash        |-> nativeHash,
     params      |-> IF nativeDef.params.present THEN nativeDef.params.val ELSE <<>>,
     results     |-> IF nativeDef.results.kind = "string"
                     THEN ArrayResult(<<nativeDef.results.str>>)
                     ELSE nativeDef.results,
     description |-> IF nativeDef.description.present /\ nativeDef.description.val # <<>>
                     THEN nativeDef.description.val ELSE <<>>,
     module      |-> moduleName]

\* The object literal pushed for a kept definition.
toRecord(moduleName, nativeHash, nativeDef) ==
    [name        |-> nativeDef.name.val,
     hash        |-> nativeHash,
     params      |-> IF nativeDef.params.present THEN nativeDef.params.val ELSE <<>>,
     results     |-> nativeDef.results,
     description |-> IF nativeDef.description.present /\ nativeDef.description.val # <<>>
                     THEN nativeDef.description.val ELSE <<>>,
     module      |-> moduleName]

\* The inner loop over one module's keys.
RECURSIVE parseModule(_, _)
parseModule(moduleName, members) ==
    IF Len(members) = 0 THEN <<>>
    ELSE (IF isKept(Head(members).def)
          THEN <<toRecord(moduleName, Head(members).key, Head(members).def)>>
          ELSE <<>>)
         \o parseModule(moduleName, Tail(members))

\* The outer loop over the module keys.
RECURSIVE parseModules(_)
parseModules(mods) ==
    IF Len(mods) = 0 THEN <<>>
    ELSE parseModule(Head(mods).key, objectKeys(Head(mods).entries))
         \o parseModules(Tail(mods))

\* Object.keys(moduleObj) throws a TypeError when a module's value is null.
parseNativesThrows(nativesData) ==
    \E i \in 1..Len(nativesData) : nativesData[i].isNull

\* parseNatives on a document none of whose modules is null.
parseNatives(nativesData) == parseModules(objectKeys(nativesData))

--------------------------------------------------------------------------
(* Bounds and input sets of parseNatives *)

\* The most entries a drawn document holds, all modules together.
MaxEntries == 3

K_cfx == <<"C","F","X">>
K_ped == <<"P","E","D">>
K_7   == <<"7">>
K_0x1 == <<"0","x","1">>
K_10  == <<"1","0">>
K_9   == <<"9">>

N_Foo == <<"F","o","o">>
N_FOO == <<"F","O","O">>

P_eventName == [name |-> <<"e","v">>, type |-> T_charPtr]
P_ped       == [name |-> <<"p">>, type |-> <<"P","e","d">>]

R_ped  == <<"P","e","d">>
R_BOOL == <<"B","O","O","L">>

D_text == <<"d">>

ModuleKeys == {K_cfx, K_10, K_9}

EntryKeys == {K_0x1, K_7}

NullDef == [isNull |-> TRUE, name |-> Absent(<<>>), params |-> Absent(<<>>),
            results |-> NoResults, description |-> Absent(<<>>)]

Def(name, params, results, description) ==
    [isNull |-> FALSE, name |-> name, params |-> params,
     results |-> results, description |-> description]

RawDefs ==
    { NullDef,
      Def(Absent(<<>>), Present(<<P_ped>>), StringResult(R_BOOL), Present(D_text)),
      Def(Present(<<>>), Absent(<<>>), NoResults, Absent(<<>>)),
      Def(Present(N_Foo), Absent(<<>>), NoResults, Absent(<<>>)),
      Def(Present(N_Foo), Present(<<>>), StringResult(R_BOOL), Present(<<>>)),
      Def(Present(N_FOO), Present(<<P_eventName, P_ped>>), ArrayResult(<<R_ped, T_int>>),
          Present(D_text)) }

\* Every sequence of n members with distinct keys out of keys, the rest of
\* a member drawn by Rest(key) (a set of records without the key).
RECURSIVE MembersOfLen(_, _, _)
MembersOfLen(n, keys, bodies) ==
    IF n = 0 THEN {<<>>}
    ELSE UNION {{<<[key |-> k, def |-> b]>> \o rest :
                    b \in bodies, rest \in MembersOfLen(n - 1, keys \ {k}, bodies)} :
                k \in keys}

EntriesOfLen(n) == MembersOfLen(n, EntryKeys, RawDefs)

Sizes == 0..MaxEntries

Module(k, es) == [key |-> k, isNull |-> FALSE, entries |-> es]

\* fileDoc is a document of at most two modules with distinct keys, none
\* null, that holds at most MaxEntries entries.
DrawParseDoc ==
    \/ fileDoc = <<>>
    \/ \E k \in ModuleKeys, n \in Sizes :
          \E es \in EntriesOfLen(n) : fileDoc = <<Module(k, es)>>
    \/ \E km \in {x \in ModuleKeys \X ModuleKeys : x[1] # x[2]},
          nn \in {y \in Sizes \X Sizes : y[1] + y[2] <= MaxEntries} :
          \E e1 \in EntriesOfLen(nn[1]), e2 \in EntriesOfLen(nn[2]) :
             fileDoc = <<Module(km[1], e1), Module(km[2], e2)>>

InitParse ==
    /\ unit = "extension.ts"
    /\ pc = "start"
    /\ fileState = "ok"
    /\ DrawParseDoc
    /\ allNatives = <<>>
    /\ natives = <<>>
    /\ messages = <<>>
    /\ subscriptions = {}
    /\ items = <<>>
    /\ requests = 0
    /\ word = <<>>
    /\ match = 0
    /\ opened = <<>>
    /\ arg = <<>>
    /\ ret = NoCall

Call_parseNatives ==
    /\ pc = "start"
    /\ ~parseNativesThrows(fileDoc)
    /\ pc' = "done"
    /\ ret' = [fn |-> "parseNatives", out |-> parseNatives(fileDoc)]
    /\ UNCHANGED <<unit, fileState, fileDoc, allNatives, natives, messages, subscriptions,
                   items, requests, word, match, opened, arg>>

NextParse == Call_parseNatives

SpecParse == InitParse /\ [][NextParse]_vars

--------------------------------------------------------------------------
(* Claims about parseNatives, checked under SpecParse *)

\* The positions <<module, entry>> of the entries of a document.
Positions(doc) ==
    UNION {{<<m, e>> : e \in 1..Len(doc[m].entries)} : m \in 1..Len(doc)}

ModuleKeyAt(doc, p) == doc[p[1]].key
EntryKeyAt(doc, p) == doc[p[1]].entries[p[2]].key
DefAt(doc, p) == doc[p[1]].entries[p[2]].def

\* The entries that have a name: not null, name present and not empty.
NamedPositions(doc) ==
    {p \in Positions(doc) :
        /\ ~DefAt(doc, p).isNull
        /\ DefAt(doc, p).name.present
        /\ Len(DefAt(doc, p).name.val) > 0}

\* The record rec is the one emitted for the entry at p.
EmittedFor(doc, rec, p) ==
    /\ rec.module = ModuleKeyAt(doc, p)
    /\ rec.hash = EntryKeyAt(doc, p)
    /\ rec.name = DefAt(doc, p).name.val

\* The entry a record came from (keys are distinct within an object).
SourceOf(doc, rec) == CHOOSE p \in Positions(doc) : EmittedFor(doc, rec, p)

DocumentBefore(p, q) == p[1] < q[1] \/ (p[1] = q[1] /\ p[2] < q[2])

\* Key k1 at place i1 is enumerated before key k2 at place i2 of one object.
KeyBefore(k1, i1, k2, i2) ==
    IF isArrayIndex(k1) /\ isArrayIndex(k2) THEN k1 # k2 /\ numeralAtMost(k1, k2)
    ELSE IF isArrayIndex(k1) THEN TRUE
    ELSE IF isArrayIndex(k2) THEN FALSE
    ELSE i1 < i2

EnumerationBefore(doc, p, q) ==
    IF p[1] # q[1]
    THEN KeyBefore(ModuleKeyAt(doc, p), p[1], ModuleKeyAt(doc, q), q[1])
    ELSE KeyBefore(EntryKeyAt(doc, p), p[2], EntryKeyAt(doc, q), q[2])

NoIndexKey(doc) ==
    /\ \A m \in 1..Len(doc) : ~isArrayIndex(doc[m].key)
    /\ \A p \in Positions(doc) : ~isArrayIndex(EntryKeyAt(doc, p))

\* One record per named entry and none for any other entry.
OnePerNamedEntry(doc, out) ==
    /\ Len(out) = Cardinality(NamedPositions(doc))
    /\ \A i \in 1..Len(out) : \E p \in NamedPositions(doc) : EmittedFor(doc, out[i], p)
    /\ \A p \in NamedPositions(doc) : \E i \in 1..Len(out) : EmittedFor(doc, out[i], p)
    /\ \A i, j \in 1..Len(out) :
          (i # j) => <<out[i].module, out[i].hash>> # <<out[j].module, out[j].hash>>

\* C1 as stated: one record per named entry, none for the others, the
\* records in document order (modules in order, entries in order within
\* each module).
C1_asStated ==
    (pc = "done" /\ ret.fn = "parseNatives") =>
        /\ OnePerNamedEntry(fileDoc, ret.out)
        /\ \A i, j \in 1..Len(ret.out) :
              (i < j) => DocumentBefore(SourceOf(fileDoc, ret.out[i]),
                                        SourceOf(fileDoc, ret.out[j]))

\* C1 amended: parseNatives returns exactly one record per raw entry whose
\* name is present and non-empty and none for an entry whose name is absent
\* or empty or whose value is null; the length is the number of named
\* entries over all modules; entries of the same name in different modules
\* are all retained; the records appear in the order Object.keys enumerates
\* the modules and, within a module, its entries: keys that are array
\* indices first, in ascending numeric order, then the other keys in
\* document order.  With no array-index key that is document order.
C1_parseNatives ==
    (pc = "done" /\ ret.fn = "parseNatives") =>
        /\ OnePerNamedEntry(fileDoc, ret.out)
        /\ \A i, j \in 1..Len(ret.out) :
              (i < j) => EnumerationBefore(fileDoc, SourceOf(fileDoc, ret.out[i]),
                                           SourceOf(fileDoc, ret.out[j]))
        /\ NoIndexKey(fileDoc) =>
              \A i, j \in 1..Len(ret.out) :
                 (i < j) => DocumentBefore(SourceOf(fileDoc, ret.out[i]),
                                           SourceOf(fileDoc, ret.out[j]))

\* Two named entries of the same name in different modules, an entry
\* without a name, and a key order that differs from document order.
C1_witness ==
    /\ pc = "done" /\ ret.fn = "parseNatives"
    /\ Len(ret.out) = 2
    /\ Cardinality(Positions(fileDoc)) = 3
    /\ ret.out[1].name = ret.out[2].name
    /\ ret.out[1].module # ret.out[2].module
    /\ DocumentBefore(SourceOf(fileDoc, ret.out[2]), SourceOf(fileDoc, ret.out[1]))

\* C2: the record emitted for a named entry has the entry's name, the
\* entry's own key as hash, the enclosing module key as module, the entry's
\* description or the empty string when absent, the entry's params or the
\* empty sequence when absent, and the entry's results in the same shape
\* (absent, single string or sequence).
FieldsPreserved(doc, rec, p) ==
    LET d == DefAt(doc, p) IN
    /\ rec.name = d.name.val
    /\ rec.hash = EntryKeyAt(doc, p)
    /\ rec.module = ModuleKeyAt(doc, p)
    /\ d.description.present => rec.description = d.description.val
    /\ ~d.description.present => rec.description = <<>>
    /\ d.params.present => rec.params = d.params.val
    /\ ~d.params.present => rec.params = <<>>
    /\ rec.results.kind = d.results.kind
    /\ d.results.kind = "string" => rec.results.str = d.results.str
    /\ d.results.kind = "array" => rec.results.arr = d.results.arr

C2_fieldsPreserved ==
    (pc = "done" /\ ret.fn = "parseNatives") =>
        /\ \A p \in NamedPositions(fileDoc) :
              \E i \in 1..Len(ret.out) : FieldsPreserved(fileDoc, ret.out[i], p)
        /\ \A i \in 1..Len(ret.out) :
              \E p \in NamedPositions(fileDoc) : FieldsPreserved(fileDoc, ret.out[i], p)

\* Three records: one with every optional member absent, one with a single
\* string result, one with a sequence of results and two parameters.
C2_witness ==
    /\ pc = "done" /\ ret.fn = "parseNatives"
    /\ \E i, j, k \in 1..Len(ret.out) :
          /\ ret.out[i].results.kind = "absent"
          /\ ret.out[i].params = <<>> /\ ret.out[i].description = <<>>
          /\ ~DefAt(fileDoc, SourceOf(fileDoc, ret.out[i])).params.present
          /\ ret.out[j].results = StringResult(R_BOOL)
          /\ ret.out[k].results = ArrayResult(<<R_ped, T_int>>)
          /\ Len(ret.out[k].params) = 2 /\ ret.out[k].description = D_text

--------------------------------------------------------------------------
(* The completion items *)

S_hashLabel     == <<" ","-"," ","H","a","s","h",":"," ">>
S_pipe          == <<" ","|"," ">>
S_commaSpace    == <<",", " ">>
S_comma         == <<",">>
S_space         == <<" ">>
S_colonSpace    == <<":", " ">>
S_void          == <<"v","o","i","d">>
S_noDescription == <<"N","o"," ","d","e","s","c","r","i","p","t","i","o","n">>
S_open          == <<"(">>
S_close         == <<")">>
S_newlineTab    == <<"\n", "\t">>
S_newlineClose  == <<"\n", ")">>
S_semicolon     == <<";">>

(* A SnippetString is the sequence of the calls that built it: the         *)
(* constructor, then appendText and appendPlaceholder in order, each with  *)
(* the text it was given.  What the editor makes of the calls is the       *)
(* host's business.                                                        *)
newSnippet(t)        == [call |-> "new", text |-> t]
appendText(t)        == [call |-> "appendText", text |-> t]
appendPlaceholder(t) == [call |-> "appendPlaceholder", text |-> t]

NoInsertText == [present |-> FALSE, calls |-> <<>>]
InsertText(cs) == [present |-> TRUE, calls |-> cs]

returnsText_wrapped(results) ==
    LET resultsArray == IF results.kind = "string" THEN <<results.str>>
                        ELSE IF results.kind = "array" THEN results.arr
                        ELSE <<>>
    IN IF Len(resultsArray) > 0 THEN join(resultsArray, S_commaSpace) ELSE S_void

\* Array.isArray(native.results) ? native.results.join(" | ") : native.results || "void"
returnsText(results) ==
    IF results.kind = "array" THEN join(results.arr, S_pipe)
    ELSE IF results.kind = "string" /\ results.str # <<>> THEN results.str
    ELSE S_void

\* part_000: resultsArray.length > 0 ? resultsArray.join(" | ") : "void"
returnsText_part000(results) ==
    LET resultsArray == IF results.kind = "string" THEN <<results.str>>
                        ELSE IF results.kind = "array" THEN results.arr
                        ELSE <<>>
    IN IF Len(resultsArray) > 0 THEN join(resultsArray, S_pipe) ELSE S_void

\* native.params.map((p) => `${mapType(p.type)} ${p.name}`).join(", ")
paramList(params) ==
    join([i \in 1..Len(params) |-> mapType(params[i].type) \o S_space \o params[i].name],
         S_commaSpace)

\* part_000: native.params?.map((p) => `${p.type} ${p.name}`).join(", ") || ""
paramList_part000(params) ==
    join([i \in 1..Len(params) |-> params[i].type \o S_space \o params[i].name],
         S_commaSpace)

\* The members the documentation template interpolates, under the headings
\* the template gives them.
docString(description, parameters, returns, module, hash) ==
    [description |-> IF description # <<>> THEN description ELSE S_noDescription,
     parameters  |-> parameters,
     returns     |-> returns,
     module      |-> module,
     hash        |-> hash]

\* The calls of the loop over params[i..], the typed multi-line form.
RECURSIVE snippetParams(_, _)
snippetParams(params, i) ==
    IF i > Len(params) THEN <<>>
    ELSE <<appendText(S_newlineTab),
           appendPlaceholder(params[i].name \o S_colonSpace \o mapType(params[i].type))>>
         \o (IF i < Len(params) THEN <<appendText(S_comma)>> ELSE <<>>)
         \o snippetParams(params, i + 1)

\* The multi-line snippet with typed parameters.
snippet(funcName, params) ==
    <<newSnippet(funcName \o S_open)>>
    \o (IF Len(params) > 0
        THEN snippetParams(params, 1) \o <<appendText(S_newlineClose)>>
        ELSE <<appendText(S_close)>>)
    \o <<appendText(S_semicolon)>>

\* part_000: the calls of the loop over params[i..], names only.
RECURSIVE snippetParams_part000(_, _)
snippetParams_part000(params, i) ==
    IF i > Len(params) THEN <<>>
    ELSE <<appendPlaceholder(params[i].name)>>
         \o (IF i < Len(params) THEN <<appendText(S_commaSpace)>> ELSE <<>>)
         \o snippetParams_part000(params, i + 1)

\* part_000: the one-line snippet, set only when there are parameters.
snippet_part000(name, params) ==
    IF Len(params) > 0
    THEN InsertText(<<newSnippet(name \o S_open)>>
                    \o snippetParams_part000(params, 1)
                    \o <<appendText(S_close)>>)
    ELSE NoInsertText

\* The map callback of provideCompletionItems.
completionItem(native) ==
    LET funcName == toPascalCase(native.name) IN
    [label         |-> funcName,
     detail        |-> native.module \o S_hashLabel \o native.hash,
     documentation |-> docString(native.description, paramList(native.params),
                                 returnsText(native.results), native.module, native.hash),
     insertText    |-> InsertText(snippet(funcName, native.params))]

\* part_000: the map callback of provideCompletionItems.
completionItem_part000(native) ==
    [label         |-> native.name,
     detail        |-> native.module \o S_hashLabel \o native.hash,
     documentation |-> docString(native.description, paramList_part000(native.params),
                                 returnsText_part000(native.results),
                                 native.module, native.hash),
     insertText    |-> snippet_part000(native.name, native.params)]

--------------------------------------------------------------------------
(* Bounds and input sets of the completion items *)

\* The most parameters a drawn record has.
MaxParams == 2

P_speed == [name |-> <<"s">>, type |-> <<"F","L","O","A","T">>]

FmtParams == {P_eventName, P_ped, P_speed}

RECURSIVE ParamLists(_)
ParamLists(n) ==
    IF n = 0 THEN {<<>>}
    ELSE ParamLists(n - 1)
         \cup {Append(ps, q) : ps \in {l \in ParamLists(n - 1) : Len(l) = n - 1},
                               q \in FmtParams}

FmtResults ==
    {NoResults, StringResult(<<>>), StringResult(R_BOOL),
     ArrayResult(<<>>), ArrayResult(<<R_ped>>), ArrayResult(<<R_ped, T_int>>)}

FmtNames == {N_Foo, <<"A","_","B">>, N_fooBar}

\* The records parseNatives can emit, over the drawn members.
FmtNatives ==
    [name : FmtNames, hash : {K_0x1}, params : ParamLists(MaxParams),
     results : FmtResults, description : {<<>>, D_text}, module : {K_cfx}]

InitFmt ==
    /\ unit \in {"extension.ts", "part_000"}
    /\ pc = "start"
    /\ fileState = "missing"
    /\ fileDoc = <<>>
    /\ allNatives = <<>>
    /\ natives = <<>>
    /\ messages = <<>>
    /\ subscriptions = {}
    /\ items = <<>>
    /\ requests = 0
    /\ word = <<>>
    /\ match = 0
    /\ opened = <<>>
    /\ arg \in FmtNatives
    /\ ret = NoCall

Call_completionItem ==
    /\ pc = "start"
    /\ unit = "extension.ts"
    /\ pc' = "done"
    /\ ret' = [fn |-> "completionItem", out |-> completionItem(arg)]
    /\ UNCHANGED <<unit, fileState, fileDoc, allNatives, natives, messages, subscriptions,
                   items, requests, word, match, opened, arg>>

Call_completionItem_part000 ==
    /\ pc = "start"
    /\ unit = "part_000"
    /\ pc' = "done"
    /\ ret' = [fn |-> "completionItem", out |-> completionItem_part000(arg)]
    /\ UNCHANGED <<unit, fileState, fileDoc, allNatives, natives, messages, subscriptions,
                   items, requests, word, match, opened, arg>>

NextFmt == Call_completionItem \/ Call_completionItem_part000

SpecFmt == InitFmt /\ [][NextFmt]_vars

--------------------------------------------------------------------------
(* Claims about the completion items, checked under SpecFmt *)

\* The elements of arr with " | " between them.
RECURSIVE PipeJoined(_)
PipeJoined(arr) ==
    IF Len(arr) = 0 THEN <<>>
    ELSE IF Len(arr) = 1 THEN arr[1]
    ELSE PipeJoined(SubSeq(arr, 1, Len(arr) - 1)) \o <<" ", "|", " ">> \o arr[Len(arr)]

ReturnsShown == ret.out.documentation.returns

\* C6 as stated: the return-type text is the elements joined with " | " for
\* a sequence, the string itself for a single string, void when absent.
C6_asStated ==
    (pc = "done" /\ ret.fn = "completionItem") =>
        /\ arg.results.kind = "array" => ReturnsShown = PipeJoined(arg.results.arr)
        /\ arg.results.kind = "string" => ReturnsShown = arg.results.str
        /\ arg.results.kind = "absent" => ReturnsShown = <<"v","o","i","d">>

\* C6 amended: the return-type text is the elements joined with " | " when
\* results is a non-empty sequence, the string itself when results is a
\* non-empty single string, and the literal void when results is absent.
\* An empty string gives void and an empty sequence the empty text in
\* src/extension.ts; in the older provider an empty sequence gives void and
\* an empty string the empty text.
C6_returnsText ==
    (pc = "done" /\ ret.fn = "completionItem") =>
        /\ (arg.results.kind = "array" /\ Len(arg.results.arr) > 0)
              => ReturnsShown = PipeJoined(arg.results.arr)
        /\ (arg.results.kind = "string" /\ Len(arg.results.str) > 0)
              => ReturnsShown = arg.results.str
        /\ arg.results.kind = "absent" => ReturnsShown = <<"v","o","i","d">>
        /\ arg.results = ArrayResult(<<R_ped, T_int>>)
              => ReturnsShown = <<"P","e","d"," ","|"," ","i","n","t">>
        /\ (unit = "extension.ts" /\ arg.results = StringResult(<<>>))
              => ReturnsShown = <<"v","o","i","d">>
        /\ (unit = "extension.ts" /\ arg.results = ArrayResult(<<>>))
              => ReturnsShown = <<>>
        /\ (unit = "part_000" /\ arg.results = StringResult(<<>>))
              => ReturnsShown = <<>>
        /\ (unit = "part_000" /\ arg.results = ArrayResult(<<>>))
              => ReturnsShown = <<"v","o","i","d">>

C6_witness ==
    /\ pc = "done" /\ ret.fn = "completionItem"
    /\ unit = "extension.ts"
    /\ arg.results = ArrayResult(<<R_ped, T_int>>)
    /\ ReturnsShown = <<"P","e","d"," ","|"," ","i","n","t">>

IsPlaceholder(c) == c.call = "appendPlaceholder"

\* The text the placeholder of parameter q carries.
PlaceholderText(q) == q.name \o <<":", " ">> \o mapType(q.type)

\* The template as text, each placeholder shown as its text.
RECURSIVE Rendered(_)
Rendered(calls) ==
    IF Len(calls) = 0 THEN <<>> ELSE Head(calls).text \o Rendered(Tail(calls))

\* label( then, per parameter, a new line, its placeholder text and a comma
\* unless it is the last, then a new line and the closing parenthesis.
RECURSIVE ExpectedLines(_, _)
ExpectedLines(params, i) ==
    IF i > Len(params) THEN <<>>
    ELSE <<"\n", "\t">> \o PlaceholderText(params[i])
         \o (IF i < Len(params) THEN <<",">> ELSE <<"\n", ")">>)
         \o ExpectedLines(params, i + 1)

\* C7: the insert template starts with the display label and an opening
\* parenthesis; with no parameter the parenthesis is closed at once; with
\* n >= 1 parameters it holds exactly n placeholders in parameter order,
\* each on its own line with the text "<name>: <mapType(type)>", a comma
\* after each but the last, then the closing parenthesis; in both cases it
\* ends with the statement terminator.
C7_insertTemplate ==
    (pc = "done" /\ ret.fn = "completionItem") =>
        LET calls == ret.out.insertText.calls
            n == Len(arg.params)
            holders == SelectSeq(calls, IsPlaceholder)
        IN /\ ret.out.insertText.present
           /\ Len(calls) >= 2
           /\ calls[1] = [call |-> "new", text |-> ret.out.label \o <<"(">>]
           /\ calls[Len(calls)] = [call |-> "appendText", text |-> <<";">>]
           /\ n = 0 => /\ Len(calls) = 3
                       /\ calls[2] = [call |-> "appendText", text |-> <<")">>]
           /\ Len(holders) = n
           /\ \A i \in 1..n : holders[i].text = PlaceholderText(arg.params[i])
           /\ \A k \in 2..Len(calls) :
                 IsPlaceholder(calls[k]) =>
                    /\ calls[k - 1] = [call |-> "appendText", text |-> <<"\n", "\t">>]
                    /\ k < Len(calls)
                    /\ calls[k + 1].call = "appendText"
                    /\ calls[k + 1].text \in {<<",">>, <<"\n", ")">>}
           /\ n >= 1 => Rendered(calls) =
                           ret.out.label \o <<"(">> \o ExpectedLines(arg.params, 1) \o <<";">>

\* C7 for the provider of src/extension.ts alone.
C7_insertTemplate_extension == (unit = "extension.ts") => C7_insertTemplate

--------------------------------------------------------------------------
(* Activation, the providers and the commands *)

\* The most provideCompletionItems calls of a run.
MaxRequests == 2

\* The most pages opened in a run.
MaxOpened == 1

\* The most command invocations of a run.
MaxCommands == 1

\* The most entries a document of a run holds, all modules together.
MaxLifeEntries == 2

Warning(t) == [kind |-> "warning", text |-> t]
Error(t)   == [kind |-> "error", text |-> t]
Info(t)    == [kind |-> "information", text |-> t]

M_notFound  == Warning("natives.json not found in the data folder.")
M_notFound_part000 ==
    Warning("FiveM natives.json not found. Please run \"npm run fetch-natives\" or place the file in the data folder.")
M_parseFail == Error("Failed to parse natives.json")
M_active    == Info("FiveMDevKit is now active!")
M_hello     == Info("Hello from FiveMDevKit!")
M_debug     == Info("Debug Resource: Not implemented yet!")

EventLabels == <<"onNet", "emitNet", "on", "registerNetEvent", "triggerEvent">>

DocsPage == "https://docs.fivem.net/natives/?_0x"

NoWord == [present |-> FALSE, val |-> <<>>]

\* activate of src/extension.ts: the file is read and parsed inside try, a
\* failure shows an error, a missing file shows a warning; then the two
\* providers and the two commands are registered.
activate ==
    /\ unit = "extension.ts"
    /\ pc = "start"
    /\ LET loaded == fileState = "ok" /\ ~parseNativesThrows(fileDoc) IN
       /\ allNatives' = IF loaded THEN parseNatives(fileDoc) ELSE <<>>
       /\ natives' = allNatives'
       /\ messages' =
             (IF fileState = "missing" THEN <<M_notFound>>
              ELSE IF loaded THEN <<>> ELSE <<M_parseFail>>) \o <<M_active>>
    /\ subscriptions' = {"nativesProvider", "eventsProvider", "helloCmd", "debugCmd"}
    /\ pc' = "active"
    /\ UNCHANGED <<unit, fileState, fileDoc, items, requests, word, match, opened, arg, ret>>

\* activate of part_000: JSON.parse and parseNatives run outside any try, so
\* what they throw leaves activate; nothing is registered then.
activate_part000 ==
    /\ unit = "part_000"
    /\ pc = "start"
    /\ IF fileState = "malformed" \/ (fileState = "ok" /\ parseNativesThrows(fileDoc))
       THEN /\ pc' = "crashed"
            /\ UNCHANGED <<allNatives, natives, messages, subscriptions>>
       ELSE /\ allNatives' = IF fileState = "ok" THEN parseNatives(fileDoc) ELSE <<>>
            /\ natives' = allNatives'
            /\ messages' =
                  (IF fileState = "missing" THEN <<M_notFound_part000>> ELSE <<>>)
                  \o <<M_active>>
            /\ subscriptions' =
                  {"completionProvider", "definitionProvider", "helloCmd", "debugCmd"}
            /\ pc' = "active"
    /\ UNCHANGED <<unit, fileState, fileDoc, items, requests, word, match, opened, arg, ret>>

provideCompletionItems_consumes ==
    /\ unit = "extension.ts"
    /\ pc = "active"
    /\ requests < MaxRequests
    /\ items' = [i \in 1..Len(natives) |-> completionItem(natives[i])]
    /\ natives' = <<>>
    /\ requests' = requests + 1
    /\ UNCHANGED <<unit, pc, fileState, fileDoc, allNatives, messages, subscriptions,
                   word, match, opened, arg, ret>>

\* FiveMCompletionProvider.provideCompletionItems of src/extension.ts.
provideCompletionItems ==
    /\ unit = "extension.ts"
    /\ pc = "active"
    /\ requests < MaxRequests
    /\ items' = [i \in 1..Len(natives) |-> completionItem(natives[i])]
    /\ requests' = requests + 1
    /\ UNCHANGED <<unit, pc, fileState, fileDoc, allNatives, natives, messages,
                   subscriptions, word, match, opened, arg, ret>>

\* FiveMCompletionProvider.provideCompletionItems of part_000.
provideCompletionItems_part000 ==
    /\ unit = "part_000"
    /\ pc = "active"
    /\ requests < MaxRequests
    /\ items' = [i \in 1..Len(natives) |-> completionItem_part000(natives[i])]
    /\ requests' = requests + 1
    /\ UNCHANGED <<unit, pc, fileState, fileDoc, allNatives, natives, messages,
                   subscriptions, word, match, opened, arg, ret>>

\* FiveMEventsCompletionProvider.provideCompletionItems: five fixed items.
provideEventsCompletionItems ==
    /\ unit = "extension.ts"
    /\ pc = "active"
    /\ ret' = [fn |-> "provideEventsCompletionItems", out |-> EventLabels]
    /\ UNCHANGED <<unit, pc, fileState, fileDoc, allNatives, natives, messages,
                   subscriptions, items, requests, word, match, opened, arg>>

find_last(records, w) ==
    IF \E i \in 1..Len(records) : toLowerCase(records[i].name) = toLowerCase(w)
    THEN CHOOSE i \in 1..Len(records) :
            /\ toLowerCase(records[i].name) = toLowerCase(w)
            /\ \A j \in (i + 1)..Len(records) :
                  toLowerCase(records[j].name) # toLowerCase(w)
    ELSE 0

\* this.natives.find((n) => n.name.toLowerCase() === word.toLowerCase()),
\* as the index of the record found, 0 for undefined.
RECURSIVE findFrom(_, _, _)
findFrom(records, w, i) ==
    IF i > Len(records) THEN 0
    ELSE IF toLowerCase(records[i].name) = toLowerCase(w) THEN i
    ELSE findFrom(records, w, i + 1)

find(records, w) == findFrom(records, w, 1)

docUrl_keepsMarker(record) == [page |-> DocsPage, key |-> record.hash]

\* `https://docs.fivem.net/natives/?_0x${match.hash?.slice(2) || ""}`
docUrl(record) == [page |-> DocsPage, key |-> slice(record.hash, 2)]

Words == {<<"f","o","o">>, <<"F","o">>}

\* FiveMDefinitionProvider.provideDefinition of part_000, with or without a
\* word under the cursor.
provideDefinition ==
    /\ unit = "part_000"
    /\ pc = "active"
    /\ Len(opened) < MaxOpened
    /\ \/ /\ word' = NoWord
          /\ match' = 0
          /\ opened' = opened
       \/ \E w \in Words :
             /\ word' = [present |-> TRUE, val |-> w]
             /\ match' = find(natives, w)
             /\ opened' = IF find(natives, w) # 0
                          THEN Append(opened, docUrl(natives[find(natives, w)]))
                          ELSE opened
    /\ ret' = [fn |-> "provideDefinition", out |-> <<"undefined">>]
    /\ UNCHANGED <<unit, pc, fileState, fileDoc, allNatives, natives, messages,
                   subscriptions, items, requests, arg>>

CommandsRun == Len(SelectSeq(messages, LAMBDA m : m \in {M_hello, M_debug}))

\* The command fivemdevkit.helloWorld.
helloWorld ==
    /\ pc = "active"
    /\ CommandsRun < MaxCommands
    /\ messages' = Append(messages, M_hello)
    /\ UNCHANGED <<unit, pc, fileState, fileDoc, allNatives, natives, subscriptions,
                   items, requests, word, match, opened, arg, ret>>

\* The command fivemdevkit.debugResource.
debugResource ==
    /\ pc = "active"
    /\ CommandsRun < MaxCommands
    /\ messages' = Append(messages, M_debug)
    /\ UNCHANGED <<unit, pc, fileState, fileDoc, allNatives, natives, subscriptions,
                   items, requests, word, match, opened, arg, ret>>

\* deactivate does nothing; the host disposes the subscriptions after it.
deactivate ==
    /\ pc = "active"
    /\ pc' = "deactivated"
    /\ UNCHANGED <<unit, fileState, fileDoc, allNatives, natives, messages, subscriptions,
                   items, requests, word, match, opened, arg, ret>>

LifeDefs ==
    { Def(Present(N_Foo), Absent(<<>>), StringResult(R_BOOL), Absent(<<>>)),
      Def(Present(N_FOO), Present(<<P_eventName, P_ped>>), ArrayResult(<<R_ped, T_int>>),
          Present(D_text)) }

LifeModuleKeys == {K_cfx, K_ped, K_9}

LifeEntriesOfLen(n) == MembersOfLen(n, EntryKeys, LifeDefs)

LifeSizes == 0..MaxLifeEntries

NullModule(k) == [key |-> k, isNull |-> TRUE, entries |-> <<>>]

\* fileDoc is a document of at most two modules with distinct keys that
\* holds at most MaxLifeEntries entries, or one with a null module.
DrawLifeDoc ==
    \/ fileDoc = <<>>
    \/ \E k \in LifeModuleKeys : fileDoc = <<NullModule(k)>>
    \/ \E k \in LifeModuleKeys, n \in LifeSizes :
          \E es \in LifeEntriesOfLen(n) : fileDoc = <<Module(k, es)>>
    \/ \E km \in {x \in LifeModuleKeys \X LifeModuleKeys : x[1] # x[2]},
          nn \in {y \in LifeSizes \X LifeSizes : y[1] + y[2] <= MaxLifeEntries} :
          \E e1 \in LifeEntriesOfLen(nn[1]), e2 \in LifeEntriesOfLen(nn[2]) :
             fileDoc = <<Module(km[1], e1), Module(km[2], e2)>>

Init ==
    /\ unit \in {"extension.ts", "part_000"}
    /\ pc = "start"
    /\ fileState \in {"missing", "malformed", "ok"}
    /\ IF fileState = "ok" THEN DrawLifeDoc ELSE fileDoc = <<>>
    /\ allNatives = <<>>
    /\ natives = <<>>
    /\ messages = <<>>
    /\ subscriptions = {}
    /\ items = <<>>
    /\ requests = 0
    /\ word = NoWord
    /\ match = 0
    /\ opened = <<>>
    /\ arg = <<>>
    /\ ret = NoCall

Next ==
    \/ activate
    \/ activate_part000
    \/ provideCompletionItems
    \/ provideCompletionItems_part000
    \/ provideEventsCompletionItems
    \/ provideDefinition
    \/ helloWorld
    \/ debugResource
    \/ deactivate

Spec == Init /\ [][Next]_vars

--------------------------------------------------------------------------
(* Claims about activation and the providers, checked under Spec *)

ProviderAndCommandsRegistered ==
    /\ {"helloCmd", "debugCmd"} \subseteq subscriptions
    /\ subscriptions \cap {"nativesProvider", "completionProvider"} # {}

\* C3: whatever the state of the input file, activate lets no exception
\* out; when the file is missing or fails to parse the catalog handed to
\* the providers is empty, a message is shown, and the providers and the
\* commands are still registered.
C3_activateContained ==
    /\ pc # "crashed"
    /\ (pc = "active" /\ fileState \in {"missing", "malformed"}) =>
          /\ natives = <<>>
          /\ \E i \in 1..Len(messages) : messages[i].kind \in {"warning", "error"}
          /\ ProviderAndCommandsRegistered

\* C3 for the activate of src/extension.ts alone.
C3_activateContained_extension == (unit = "extension.ts") => C3_activateContained

\* The names a and b are equal but for letter case.
SameName(a, b) == a \in CaseVariants(b)

\* The record at index i is the first of the catalog whose name is w but
\* for letter case; 0 stands for not found.
FirstInCatalog(i, w) ==
    IF i = 0 THEN \A j \in 1..Len(natives) : ~SameName(natives[j].name, w)
    ELSE /\ i \in 1..Len(natives)
         /\ SameName(natives[i].name, w)
         /\ \A j \in 1..(i - 1) : ~SameName(natives[j].name, w)

Looked == pc = "active" /\ ret.fn = "provideDefinition" /\ word.present

\* C4 as stated: the lookup selects the first record in catalog order whose
\* name matches without regard to case, or none; of two records whose names
\* differ only in case the one earlier in the input document is selected.
C4_asStated ==
    Looked =>
        /\ FirstInCatalog(match, word.val)
        /\ match # 0 =>
              \A j \in 1..Len(natives) :
                 (j # match /\ SameName(natives[j].name, word.val)) =>
                    DocumentBefore(SourceOf(fileDoc, natives[match]),
                                   SourceOf(fileDoc, natives[j]))

\* C4 amended: the lookup compares record.name to the query word without
\* regard to case and selects the first record in catalog order whose name
\* matches, or reports not-found when none does; of two records whose names
\* differ only in case the one earlier in the catalog is selected, which is
\* the one earlier in the input document when no module or entry key is an
\* array index (such keys are enumerated first).
C4_lookup ==
    Looked =>
        /\ FirstInCatalog(match, word.val)
        /\ match # 0 =>
              \A j \in 1..Len(natives) :
                 (j # match /\ SameName(natives[j].name, word.val)) =>
                    /\ match < j
                    /\ EnumerationBefore(fileDoc, SourceOf(fileDoc, natives[match]),
                                         SourceOf(fileDoc, natives[j]))
                    /\ NoIndexKey(fileDoc) =>
                          DocumentBefore(SourceOf(fileDoc, natives[match]),
                                         SourceOf(fileDoc, natives[j]))

\* Two records in different modules whose names differ only in case, looked
\* up by a third spelling: the first is selected.
C4_witness ==
    /\ Looked
    /\ match = 1
    /\ Len(natives) = 2
    /\ natives[1].name # natives[2].name
    /\ SameName(natives[1].name, natives[2].name)
    /\ natives[1].module # natives[2].module
    /\ word.val \notin {natives[1].name, natives[2].name}
    /\ NoIndexKey(fileDoc)

\* C8: the catalog is built during activation before the providers are
\* constructed, so they hold the built catalog; no request or command
\* changes it afterwards; and a completion request on the natives provider
\* returns the same sequence of entries as the one before it.
C8_catalogImmutable ==
    [][ /\ pc' = "active" => natives' = allNatives'
        /\ (pc' = "active" /\ fileState = "ok" /\ ~parseNativesThrows(fileDoc))
              => natives' = parseNatives(fileDoc)
        /\ pc = "active" => (natives' = natives /\ allNatives' = allNatives)
        /\ (requests >= 1 /\ requests' = requests + 1) => items' = items
      ]_vars

\* Two completion requests answered over a catalog of two records.
C8_witness ==
    /\ pc = "active"
    /\ requests = 2
    /\ Len(natives) = 2
    /\ Len(items) = 2

\* A step of the definition provider: in part_000 the only handler that
\* leaves the request count, the messages and the activation state alone.
DefinitionStep ==
    /\ unit = "part_000"
    /\ pc = "active" /\ pc' = "active"
    /\ requests' = requests
    /\ messages' = messages

\* The hash h without its first two characters (nothing when it has at most two).
Stripped(h, k) ==
    IF Len(h) <= 2 THEN k = <<>>
    ELSE /\ Len(k) = Len(h) - 2
         /\ \A i \in 1..Len(k) : k[i] = h[i + 2]

\* C11: a definition request never returns a jump target (its result is
\* undefined); it opens an external reference page if and only if there is
\* a word under the cursor that matches some record; the page is keyed by
\* the matched record's hash without its leading two characters; no page
\* is opened without a word or without a match, nor by any other handler.
C11_definitionOpensPage ==
    [][ /\ DefinitionStep =>
             /\ ret'.fn = "provideDefinition"
             /\ ret'.out = <<"undefined">>
             /\ IF word'.present
                   /\ \E j \in 1..Len(natives) : SameName(natives[j].name, word'.val)
                THEN /\ FirstInCatalog(match', word'.val)
                     /\ match' # 0
                     /\ Len(opened') = Len(opened) + 1
                     /\ SubSeq(opened', 1, Len(opened)) = opened
                     /\ opened'[Len(opened')].page = "https://docs.fivem.net/natives/?_0x"
                     /\ Stripped(natives[match'].hash, opened'[Len(opened')].key)
                ELSE opened' = opened
        /\ ~DefinitionStep => opened' = opened
      ]_vars

\* A word that differs in case from the name of the record it matches, whose
\* hash 0x1 gave the page key 1; the request returned undefined.
C11_witness ==
    /\ Looked
    /\ ret.out = <<"undefined">>
    /\ match # 0
    /\ natives[match].hash = K_0x1
    /\ natives[match].name # word.val
    /\ opened = <<[page |-> "https://docs.fivem.net/natives/?_0x", key |-> <<"1">>]>>

====
